---- MODULE Spec2Model ----
(***************************************************************************)
(* State-machine model of the pxls client (src/src/client.rs): the lazy   *)
(* buffer cache (info, colors, initial_colors, mask, timestamps), the     *)
(* incremental pixel applier (update_buffers), cache invalidation          *)
(* (clear_cache) and the connection loop (connect / start).                *)
(*                                                                         *)
(* Tasks: the streaming task running start(), and external tasks that call *)
(* the public accessors.  Every `.lock().await` on a cache slot and every  *)
(* network await is a separate step; code between two awaits that touches  *)
(* only task-local data or data protected by locks the task holds is       *)
(* folded into the step that precedes it.  The inner RwLock of a buffer is *)
(* only ever taken by the code for short, non-nested sections (read of     *)
(* BoardInfo / SystemTime, write of one cell) and is not modelled as a     *)
(* separate lock.                                                          *)
(***************************************************************************)
EXTENDS Integers, Sequences, FiniteSets, TLC

VARIABLES
    cache,      \* ClientCache: slot -> Option<Arc<RwLock<T>>>, <<>> is None
    holder,     \* tokio Mutex of every slot: the task holding it, or NoTask
    pc,         \* position of every task in its code
    op,         \* the function a task is executing (who called info())
    loc,        \* task-local variables
    result,     \* the value most recently returned by an accessor call
    connected,  \* Client.connected
    connRes,    \* value returned by connect(), until the next call
    srvBoard,   \* the server's canvas (what boarddata returns)
    wsq,        \* websocket frames sent by the server, not yet read
    wsOpen,     \* the server side of the websocket is open
    clock,      \* SystemTime::now(), in seconds
    site_base,  \* scheme of Client.site_base
    env,        \* what the environment may do in this exploration
    hist        \* history variables used to state properties

vars == <<cache, holder, pc, op, loc, result, connected, connRes,
          srvBoard, wsq, wsOpen, clock, site_base, env, hist>>

----------------------------------------------------------------------------
(* Bounds of the exploration *)

MaxConnects == 1
MaxFrames == 2
MaxQueue == 1
MaxTime == 1

----------------------------------------------------------------------------
(* Tasks and slots *)

StreamTask == "s"
Callers == {"a1", "a2"}
Tasks == Callers \cup {StreamTask}
NoTask == "none"

Slots == {"info", "colors", "initial", "mask", "timestamps", "created_at"}
PixelSlots == {"colors", "initial", "mask", "timestamps"}
Accessors == {"info", "colors", "initial_colors", "mask", "timestamps"}

SlotOf(a) == IF a = "initial_colors" THEN "initial" ELSE a

(* Option<T> as a sequence of length at most one *)
None == <<>>
Some(x) == <<x>>
IsNone(o) == o = <<>>
IsSome(o) == o # <<>>
Unwrap(o) == o[1]

(* An Arc<RwLock<T>>: the identity of the allocation and its content.  The *)
(* identity is <<e, n>>: the allocation is the n-th one stored into its    *)
(* slot since the e-th clear_cache, e being read when the request for its  *)
(* content was sent.                                                       *)
Arc(i, v) == [id |-> i, v |-> v]

(* Result<T, RequestError> *)
Ok(v) == [ok |-> TRUE, v |-> <<v>>, err |-> ""]
Err(e) == [ok |-> FALSE, v |-> <<>>, err |-> e]
Val(r) == r.v[1]

----------------------------------------------------------------------------
(* The server: canvas metadata and the bodies it can answer with *)

Canvas == [width |-> 2, height |-> 2]
ServerInfo == [width |-> Canvas.width, height |-> Canvas.height,
               heatmap_cooldown |-> env.cooldown]
NumPixels == Canvas.width * Canvas.height

(* A body is the whole array or, from a faulty server, one byte short *)
Bodies(b) == IF env.faulty THEN {b, SubSeq(b, 1, Len(b) - 1)} ELSE {b}

HeatBodies == UNION {Bodies([i \in 1..NumPixels |-> h]) : h \in env.heat}
VirginBodies ==
    UNION {Bodies([i \in 1..NumPixels |-> IF i = 1 THEN v ELSE 0]) : v \in env.virgin}

(* Websocket frames.  A pixel is <<x, y, color>>. *)
GoodPixels == {<<1, 0, 1>>, <<1, 1, 2>>}
BadPixels == {<<Canvas.width, 0, 2>>, <<0, Canvas.height, 2>>}
PixelFrames ==
    {<<p>> : p \in GoodPixels \cup BadPixels} \cup
    {<< <<1, 0, 1>>, <<1, 0, 2>> >>}
(* A frame is named by what serde_json::from_str::<Message> makes of its  *)
(* text: kind is the variant ("unknown" when the text does not decode),   *)
(* pixels the payload of Message::Pixel; the text of a frame that decodes *)
(* is abbreviated to its tag                                              *)
Frame(k, ps) == [kind |-> k, pixels |-> ps, text |-> k]
(* texts that decode to no Message: an unrecognised tag, no JSON at all *)
UnknownTexts == {"{\"type\":\"zzz\"}", "not json"}
Unknown(txt) == [kind |-> "unknown", pixels |-> <<>>, text |-> txt]
Frames ==
    {Frame("pixel", ps) : ps \in PixelFrames} \cup
    {Frame(k, <<>>) : k \in {"message", "unknown", "error", "binary"}}

InRange(p) == p[1] < Canvas.width /\ p[2] < Canvas.height

(* The canvas after the server has applied the pixels of a frame *)
RECURSIVE Placed(_, _)
Placed(board, ps) ==
    IF ps = <<>> THEN board
    ELSE Placed(IF InRange(Head(ps))
                THEN [board EXCEPT ![Head(ps)[2] * Canvas.width + Head(ps)[1] + 1]
                                       = Head(ps)[3]]
                ELSE board,
                Tail(ps))

(* Schemes of the base address.  A mailto: address cannot be a base:    *)
(* Url::join returns Err for it, so site_base.join(..).unwrap() panics.  *)
(* The accessors are explored with base addresses that can be a base.    *)
Schemes == {"http", "https", "ftp", "mailto"}
CannotBeABase(scheme) == scheme = "mailto"

(* ClientBuidler::build: reconnect_time defaults to 60 seconds *)
DefaultReconnect == 60

(* RequestError: a transport failure, a body that does not parse *)
InfoErrors == {"Http", "ParseJSON"}
BufferErrors == {"Http"}

----------------------------------------------------------------------------
(* Task-local variables and return values *)

NoLoc == [info |-> None, now |-> 0, k |-> 0, kind |-> "", frame |-> <<>>,
          text |-> "", tag |-> 0, snap |-> <<>>]
NoResult == [st |-> "none", failed |-> "", id |-> <<0, 0>>]

(* The value an accessor call returns to its caller: the handle, or an    *)
(* error or a panic of the accessor named in `failed`                     *)
Returned(a, r) ==
    IF r.ok
    THEN [st |-> "ok", failed |-> "", id |-> Val(r).id]
    ELSE [st |-> "err", failed |-> a, id |-> <<0, 0>>]
Panicked(a) == [st |-> "panic", failed |-> a, id |-> <<0, 0>>]

(* Dropping every MutexGuard a task holds (return, `?` or unwinding) *)
Release(h, t) == [s \in Slots |-> IF h[s] = t THEN NoTask ELSE h[s]]

(* Arc::new(RwLock::new(v)) stored into slot s by a request sent at tag *)
NewArc(s, tag, v) == Arc(<<tag, hist.stored[s] + 1>>, v)
Stored(h, s) == [h EXCEPT !.stored[s] = @ + 1]

(* The log of the calls made on self.event_handler during the current     *)
(* connect(), and the texts taken from the stream; kept when env.log      *)
Notify(h, name, arg) ==
    IF env.log THEN [h EXCEPT !.notif = Append(@, [h |-> name, arg |-> arg])] ELSE h
Taken(h, txt) ==
    IF env.log THEN [h EXCEPT !.taken = Append(@, txt)] ELSE h
(* the color of the last pixel of each index (within the canvas) for *)
(* which update_buffers has returned since the last clear_cache       *)
Applied(h, pixel, index) ==
    IF env.log /\ index < NumPixels
    THEN [h EXCEPT !.applied[index + 1] = Some(pixel[3])] ELSE h
(* the duration of the sleep that precedes the current connect() *)
Slept(h, duration) ==
    IF env.log THEN [h EXCEPT !.slept = duration] ELSE h

InitWith(e, schemes) ==
    /\ env = e
    /\ cache = [s \in Slots |-> None]
    /\ holder = [s \in Slots |-> NoTask]
    /\ pc = [t \in Tasks |-> IF t = StreamTask THEN "start" ELSE "idle"]
    /\ op = [t \in Tasks |-> IF t = StreamTask THEN "start" ELSE ""]
    /\ loc = [t \in Tasks |-> NoLoc]
    /\ result = NoResult
    /\ connected = FALSE
    /\ connRes = "none"
    /\ srvBoard = [i \in 1..NumPixels |-> 0]
    /\ wsq = <<>>
    /\ wsOpen = FALSE
    /\ clock = 0
    /\ site_base \in schemes
    /\ hist = [epoch |-> 0,
               stored |-> [s \in Slots |-> 0],
               connects |-> 0,
               sent |-> 0,
               notif |-> <<>>,
               taken |-> <<>>,
               slept |-> 0,
               applied |-> [i \in 1..NumPixels |-> None]]

----------------------------------------------------------------------------
(* An external task calls one of the public accessors.  Idle callers are  *)
(* interchangeable: the second one is used only while the first is busy.  *)

Call(t) ==
    /\ t \in env.callers
    /\ pc[t] = "idle"
    /\ t = "a2" => pc["a1"] # "idle"
    /\ \E a \in env.accessors :
        /\ op' = [op EXCEPT ![t] = a]
        /\ pc' = [pc EXCEPT ![t] = IF a = "info" THEN "info_lock" ELSE "lock"]
    /\ UNCHANGED <<cache, holder, loc, result, connected, connRes,
                   srvBoard, wsq, wsOpen, clock, site_base, env, hist>>

(* A panic unwinds the task: every guard is dropped, the task is gone *)
Panic(t, h) ==
    /\ holder' = Release(h, t)
    /\ pc' = [pc EXCEPT ![t] = "panicked"]
    /\ loc' = [loc EXCEPT ![t] = NoLoc]

----------------------------------------------------------------------------
(* What the callers of Client::info do with the value r it returns, up to  *)
(* their next await; h is the state of the locks once info() has dropped   *)
(* its guard.                                                              *)

(* an external caller of info() *)
info_return(t, r, h) ==
    /\ result' = Returned("info", r)
    /\ holder' = h
    /\ loc' = [loc EXCEPT ![t] = NoLoc]
    /\ pc' = [pc EXCEPT ![t] = "idle"]
    /\ op' = [op EXCEPT ![t] = ""]
    /\ UNCHANGED <<connRes, wsOpen, wsq>>

(* timestamps(): let info = self.info().await?; info.read(); now *)
timestamps_info(t, r, h) ==
    /\ IF r.ok
       THEN /\ loc' = [loc EXCEPT ![t].info = Some(Val(r).v), ![t].now = clock]
            /\ pc' = [pc EXCEPT ![t] = "created_lock"]
            /\ holder' = h
            /\ UNCHANGED <<result, op>>
       ELSE /\ result' = Returned("timestamps", r)
            /\ holder' = Release(h, t)
            /\ loc' = [loc EXCEPT ![t] = NoLoc]
            /\ pc' = [pc EXCEPT ![t] = "idle"]
            /\ op' = [op EXCEPT ![t] = ""]
    /\ UNCHANGED <<connRes, wsOpen, wsq>>

(* update_buffers(): self.info().await.expect(..); info.read() *)
update_buffers_info(t, r, h) ==
    /\ IF r.ok
       THEN /\ loc' = [loc EXCEPT ![t].info = Some(Val(r).v)]
            /\ pc' = [pc EXCEPT ![t] = "ub_colors"]
            /\ holder' = h
       ELSE Panic(t, h)
    /\ UNCHANGED <<result, op, connRes, wsOpen, wsq>>

(* Mutant: connect() goes on to handle_ready although info() failed *)
connect_info_ignore(t, r, h) ==
    /\ pc' = [pc EXCEPT ![t] = "ready"]
    /\ holder' = h
    /\ loc' = [loc EXCEPT ![t] = NoLoc]
    /\ UNCHANGED <<result, op, connRes, wsOpen, wsq>>

(* connect(): self.info().await.map_err(ConnectError::InfoFailed)?  The *)
(* early return drops the websocket stream.                             *)
connect_info(t, r, h) ==
    /\ IF r.ok
       THEN /\ pc' = [pc EXCEPT ![t] = "ready"]
            /\ UNCHANGED <<connRes, wsOpen, wsq>>
       ELSE /\ connRes' = "InfoFailed"
            /\ wsOpen' = FALSE
            /\ wsq' = <<>>
            /\ pc' = [pc EXCEPT ![t] = "sleep"]
    /\ holder' = h
    /\ loc' = [loc EXCEPT ![t] = NoLoc]
    /\ UNCHANGED <<result, op>>

InfoCaller(t, r, h) ==
    CASE op[t] = "info" -> info_return(t, r, h)
      [] op[t] = "timestamps" -> timestamps_info(t, r, h)
      [] op[t] = "update_buffers" -> update_buffers_info(t, r, h)
      [] op[t] = "connect" -> connect_info(t, r, h)

----------------------------------------------------------------------------
(* Client::info, called by external tasks, timestamps(), update_buffers()  *)
(* and connect().  The guard on the info slot is dropped when info()       *)
(* returns.                                                                *)

info_lock(t) ==
    /\ pc[t] = "info_lock"
    /\ holder["info"] = NoTask
    /\ IF IsSome(cache["info"])
       THEN InfoCaller(t, Ok(Unwrap(cache["info"])), holder)
       ELSE /\ holder' = [holder EXCEPT !["info"] = t]
            /\ pc' = [pc EXCEPT ![t] = "info_fetch"]
            /\ loc' = [loc EXCEPT ![t].tag = hist.epoch]
            /\ UNCHANGED <<op, result, connRes, wsOpen, wsq>>
    /\ UNCHANGED <<cache, connected, srvBoard, clock, site_base, env, hist>>

info_fetched(t) ==
    /\ pc[t] = "info_fetch"
    /\ \E resp \in {Ok(ServerInfo)} \cup {Err(e) : e \in InfoErrors} :
        IF resp.ok
        THEN LET arc == NewArc("info", loc[t].tag, Val(resp))
             IN /\ cache' = [cache EXCEPT !["info"] = Some(arc)]
                /\ hist' = Stored(hist, "info")
                /\ InfoCaller(t, Ok(arc), [holder EXCEPT !["info"] = NoTask])
        ELSE /\ InfoCaller(t, resp, [holder EXCEPT !["info"] = NoTask])
             /\ UNCHANGED <<cache, hist>>
    /\ UNCHANGED <<connected, srvBoard, clock, site_base, env>>

info(t) == info_lock(t) \/ info_fetched(t)

----------------------------------------------------------------------------
(* Client::fetch_buffer: the bodies a GET of the buffer can produce; the   *)
(* canvas is the one the server has when it answers.  No length check is   *)
(* made on the body.                                                       *)

fetch_buffer(buffer) ==
    {Err(e) : e \in BufferErrors} \cup
    CASE buffer = "Colormap" -> {Ok(b) : b \in Bodies(srvBoard)}
      [] buffer \in {"InitialColormap", "Placemap"} ->
            {Ok(b) : b \in Bodies([i \in 1..NumPixels |-> 0])}
      [] buffer = "Heatmap" -> {Ok(b) : b \in HeatBodies}
      [] buffer = "Virginmap" -> {Ok(b) : b \in VirginBodies}

(* The server answers a request with the canvas it has at some moment  *)
(* between the sending of the request and the arrival of the response:  *)
(* Snapshot is the canvas when the request is sent (kept when env.stale) *)
(* and Answered the responses made from it, next to those fetch_buffer   *)
(* makes from the canvas at the arrival                                  *)
Snapshot == IF env.stale THEN srvBoard ELSE <<>>

Answered(t, buffer) ==
    IF buffer = "Colormap" /\ loc[t].snap # <<>>
    THEN {Ok(b) : b \in Bodies(loc[t].snap)}
    ELSE {}

(* Mutant: the accessor sends a request although the slot is populated *)
BufferLock_refetch(t, a, s) ==
    /\ t \in Callers
    /\ op[t] = a
    /\ pc[t] = "lock"
    /\ holder[s] = NoTask
    /\ holder' = [holder EXCEPT ![s] = t]
    /\ pc' = [pc EXCEPT ![t] = "fetch"]
    /\ loc' = [loc EXCEPT ![t].tag = hist.epoch, ![t].snap = Snapshot]
    /\ UNCHANGED <<cache, result, op, connected, connRes,
                   srvBoard, wsq, wsOpen, clock, site_base, env, hist>>

(* Mutant: the accessor drops the guard of the slot while the request is *)
(* in flight                                                             *)
BufferLock_unlocked(t, a, s) ==
    /\ t \in Callers
    /\ op[t] = a
    /\ pc[t] = "lock"
    /\ holder[s] = NoTask
    /\ IF IsSome(cache[s])
       THEN /\ result' = Returned(a, Ok(Unwrap(cache[s])))
            /\ pc' = [pc EXCEPT ![t] = "idle"]
            /\ op' = [op EXCEPT ![t] = ""]
            /\ UNCHANGED loc
       ELSE /\ pc' = [pc EXCEPT ![t] = "fetch"]
            /\ loc' = [loc EXCEPT ![t].tag = hist.epoch, ![t].snap = Snapshot]
            /\ UNCHANGED <<result, op>>
    /\ UNCHANGED <<cache, holder, connected, connRes,
                   srvBoard, wsq, wsOpen, clock, site_base, env, hist>>

(* Client::colors, Client::initial_colors, Client::mask share one shape: *)
(* lock the slot and, when it is empty, send the request                  *)
BufferLock(t, a, s) ==
    /\ t \in Callers
    /\ op[t] = a
    /\ pc[t] = "lock"
    /\ holder[s] = NoTask
    /\ IF IsSome(cache[s])
       THEN /\ result' = Returned(a, Ok(Unwrap(cache[s])))
            /\ pc' = [pc EXCEPT ![t] = "idle"]
            /\ op' = [op EXCEPT ![t] = ""]
            /\ UNCHANGED <<holder, loc>>
       ELSE /\ holder' = [holder EXCEPT ![s] = t]
            /\ pc' = [pc EXCEPT ![t] = "fetch"]
            /\ loc' = [loc EXCEPT ![t].tag = hist.epoch, ![t].snap = Snapshot]
            /\ UNCHANGED <<result, op>>
    /\ UNCHANGED <<cache, connected, connRes,
                   srvBoard, wsq, wsOpen, clock, site_base, env, hist>>

(* Mutant: a failed request leaves an empty buffer in the slot *)
BufferFetched_poison(t, a, s, buffer) ==
    /\ t \in Callers
    /\ op[t] = a
    /\ pc[t] = "fetch"
    /\ \E resp \in fetch_buffer(buffer) \cup Answered(t, buffer) :
        LET arc == NewArc(s, loc[t].tag, IF resp.ok THEN Val(resp) ELSE <<>>)
        IN /\ cache' = [cache EXCEPT ![s] = Some(arc)]
           /\ result' = Returned(a, IF resp.ok THEN Ok(arc) ELSE resp)
           /\ hist' = Stored(hist, s)
    /\ holder' = Release(holder, t)
    /\ loc' = [loc EXCEPT ![t] = NoLoc]
    /\ pc' = [pc EXCEPT ![t] = "idle"]
    /\ op' = [op EXCEPT ![t] = ""]
    /\ UNCHANGED <<connected, connRes, srvBoard, wsq, wsOpen, clock, site_base, env>>

(* the request completes: store and return the buffer, or return the error *)
BufferFetched(t, a, s, buffer) ==
    /\ t \in Callers
    /\ op[t] = a
    /\ pc[t] = "fetch"
    /\ \E resp \in fetch_buffer(buffer) \cup Answered(t, buffer) :
        IF resp.ok
        THEN LET arc == NewArc(s, loc[t].tag, Val(resp))
             IN /\ cache' = [cache EXCEPT ![s] = Some(arc)]
                /\ result' = Returned(a, Ok(arc))
                /\ hist' = Stored(hist, s)
        ELSE /\ result' = Returned(a, resp)
             /\ UNCHANGED <<cache, hist>>
    /\ holder' = Release(holder, t)
    /\ loc' = [loc EXCEPT ![t] = NoLoc]
    /\ pc' = [pc EXCEPT ![t] = "idle"]
    /\ op' = [op EXCEPT ![t] = ""]
    /\ UNCHANGED <<connected, connRes, srvBoard, wsq, wsOpen, clock, site_base, env>>

colors(t) ==
    \/ BufferLock(t, "colors", "colors")
    \/ BufferFetched(t, "colors", "colors", "Colormap")

initial_colors(t) ==
    \/ BufferLock(t, "initial_colors", "initial")
    \/ BufferFetched(t, "initial_colors", "initial", "InitialColormap")

mask(t) ==
    \/ BufferLock(t, "mask", "mask")
    \/ BufferFetched(t, "mask", "mask", "Placemap")

----------------------------------------------------------------------------
(* Client::timestamps *)

Min(a, b) == IF a < b THEN a ELSE b

(* Mutant: the canvas start is now - heatmap_cooldown, without the second *)
(* that tells the oldest pixels from virgin ones                          *)
CanvasStart_no_margin(now, board_info) == now - board_info.heatmap_cooldown

(* The closure of created_at.get_or_insert_with: now - (heatmap_cooldown *)
(* + 1) seconds                                                         *)
CanvasStart(now, board_info) == now - (board_info.heatmap_cooldown + 1)

(* Mutant: the virginmap is ignored *)
PixelTime_heat_only(heat, virgin, now, canvas_start) == (now - heat) - canvas_start

(* One cell of the zip(heatmap, virginmap) map: the age as as_secs() gives *)
(* it, before the conversion to u32                                        *)
PixelTime(heat, virgin, now, canvas_start) ==
    IF virgin = 0 THEN (now - heat) - canvas_start ELSE 0

(* duration_since(..).unwrap() fails on a negative duration and          *)
(* u32::try_from(..).expect(..) above u32::MAX = 65536 * 65536 - 1, which  *)
(* is written with a quotient to stay within the checker's integers        *)
TimePanics(secs) == secs < 0 \/ secs \div 65536 > 65535

timestamps_data(heatmap, virginmap, now, canvas_start) ==
    [i \in 1..Min(Len(heatmap), Len(virginmap)) |->
        PixelTime(heatmap[i], virginmap[i], now, canvas_start)]

(* lock the slot and, when it is empty, call self.info() *)
timestamps_lock(t) ==
    /\ t \in Callers
    /\ op[t] = "timestamps"
    /\ pc[t] = "lock"
    /\ holder["timestamps"] = NoTask
    /\ IF IsSome(cache["timestamps"])
       THEN /\ result' = Returned("timestamps", Ok(Unwrap(cache["timestamps"])))
            /\ pc' = [pc EXCEPT ![t] = "idle"]
            /\ op' = [op EXCEPT ![t] = ""]
            /\ UNCHANGED holder
       ELSE /\ holder' = [holder EXCEPT !["timestamps"] = t]
            /\ pc' = [pc EXCEPT ![t] = "info_lock"]
            /\ UNCHANGED <<result, op>>
    /\ UNCHANGED <<cache, loc, connected, connRes,
                   srvBoard, wsq, wsOpen, clock, site_base, env, hist>>

(* Mutant: every call of timestamps() that finds its slot empty sets *)
(* created_at anew                                                   *)
timestamps_created_at_reset(t) ==
    /\ t \in Callers
    /\ op[t] = "timestamps"
    /\ pc[t] = "created_lock"
    /\ holder["created_at"] = NoTask
    /\ holder' = [holder EXCEPT !["created_at"] = t]
    /\ cache' = [cache EXCEPT !["created_at"] =
                   Some(NewArc("created_at", hist.epoch,
                               CanvasStart(loc[t].now, Unwrap(loc[t].info))))]
    /\ hist' = Stored(hist, "created_at")
    /\ loc' = [loc EXCEPT ![t].tag = hist.epoch]
    /\ pc' = [pc EXCEPT ![t] = "join"]
    /\ UNCHANGED <<op, result, connected, connRes,
                   srvBoard, wsq, wsOpen, clock, site_base, env>>

(* created_at.lock(), get_or_insert_with, the two requests are sent *)
timestamps_created_at(t) ==
    /\ t \in Callers
    /\ op[t] = "timestamps"
    /\ pc[t] = "created_lock"
    /\ holder["created_at"] = NoTask
    /\ holder' = [holder EXCEPT !["created_at"] = t]
    /\ IF IsNone(cache["created_at"])
       THEN /\ cache' = [cache EXCEPT !["created_at"] =
                   Some(NewArc("created_at", hist.epoch,
                               CanvasStart(loc[t].now, Unwrap(loc[t].info))))]
            /\ hist' = Stored(hist, "created_at")
       ELSE UNCHANGED <<cache, hist>>
    /\ loc' = [loc EXCEPT ![t].tag = hist.epoch]
    /\ pc' = [pc EXCEPT ![t] = "join"]
    /\ UNCHANGED <<op, result, connected, connRes,
                   srvBoard, wsq, wsOpen, clock, site_base, env>>

(* try_join!(heatmap, virginmap)?, the map over the zip, the store *)
timestamps_joined(t) ==
    /\ t \in Callers
    /\ op[t] = "timestamps"
    /\ pc[t] = "join"
    /\ \E heatmap \in fetch_buffer("Heatmap"), virginmap \in fetch_buffer("Virginmap") :
        LET canvas_start == Unwrap(cache["created_at"]).v
            data == timestamps_data(Val(heatmap), Val(virginmap),
                                    loc[t].now, canvas_start)
            arc == NewArc("timestamps", loc[t].tag, data)
        IN IF ~heatmap.ok \/ ~virginmap.ok
           THEN /\ result' = Returned("timestamps",
                                      IF ~heatmap.ok THEN heatmap ELSE virginmap)
                /\ UNCHANGED <<cache, hist>>
           ELSE IF \E i \in DOMAIN data : TimePanics(data[i])
           THEN /\ result' = Panicked("timestamps")
                /\ UNCHANGED <<cache, hist>>
           ELSE /\ cache' = [cache EXCEPT !["timestamps"] = Some(arc)]
                /\ result' = Returned("timestamps", Ok(arc))
                /\ hist' = Stored(hist, "timestamps")
    /\ holder' = Release(holder, t)
    /\ loc' = [loc EXCEPT ![t] = NoLoc]
    /\ pc' = [pc EXCEPT ![t] = "idle"]
    /\ op' = [op EXCEPT ![t] = ""]
    /\ UNCHANGED <<connected, connRes, srvBoard, wsq, wsOpen, clock, site_base, env>>

timestamps(t) ==
    \/ timestamps_lock(t)
    \/ timestamps_created_at(t)
    \/ timestamps_joined(t)

----------------------------------------------------------------------------
(* Client::update_buffers, run by the streaming task for pixel loc.k of    *)
(* the frame being processed                                               *)

CurPixel(t) == loc[t].frame[loc[t].k]

(* Mutant: x and y exchanged in the index *)
Index_transposed(pixel, board_info) == pixel[1] * board_info.width + pixel[2]

(* let index = pixel.y * info.width + pixel.x *)
Index(pixel, board_info) == pixel[2] * board_info.width + pixel[1]

update_buffers_lock_colors(t) ==
    /\ t = StreamTask
    /\ pc[t] = "ub_colors"
    /\ holder["colors"] = NoTask
    /\ holder' = [holder EXCEPT !["colors"] = t]
    /\ pc' = [pc EXCEPT ![t] = "ub_timestamps"]
    /\ UNCHANGED <<cache, op, loc, result, connected, connRes,
                   srvBoard, wsq, wsOpen, clock, site_base, env, hist>>

update_buffers_lock_timestamps(t) ==
    /\ t = StreamTask
    /\ pc[t] = "ub_timestamps"
    /\ holder["timestamps"] = NoTask
    /\ holder' = [holder EXCEPT !["timestamps"] = t]
    /\ pc' = [pc EXCEPT ![t] = "ub_created"]
    /\ UNCHANGED <<cache, op, loc, result, connected, connRes,
                   srvBoard, wsq, wsOpen, clock, site_base, env, hist>>

(* Mutant: with the colors slot empty, update_buffers stores a blank *)
(* buffer in it                                                      *)
update_buffers_colors_insert(t) ==
    /\ t = StreamTask
    /\ pc[t] = "ub_created"
    /\ holder["created_at"] = NoTask
    /\ LET index == Index(CurPixel(t), Unwrap(loc[t].info))
           cbuf == cache["colors"]
       IN IF IsSome(cbuf) /\ index >= Len(Unwrap(cbuf).v)
          THEN /\ Panic(t, holder)
               /\ UNCHANGED cache
          ELSE /\ cache' = IF IsSome(cbuf)
                           THEN [cache EXCEPT !["colors"][1].v[index + 1] = CurPixel(t)[3]]
                           ELSE [cache EXCEPT !["colors"] =
                                    Some(NewArc("colors", hist.epoch,
                                                [i \in 1..NumPixels |-> 0]))]
               /\ holder' = [holder EXCEPT !["created_at"] = t, !["colors"] = NoTask]
               /\ pc' = [pc EXCEPT ![t] = "ub_write_ts"]
               /\ UNCHANGED loc
    /\ UNCHANGED <<op, result, connected, connRes,
                   srvBoard, wsq, wsOpen, clock, site_base, env, hist>>

(* created_at.lock(), the index, the write of the color, drop(colors) *)
update_buffers_colors(t) ==
    /\ t = StreamTask
    /\ pc[t] = "ub_created"
    /\ holder["created_at"] = NoTask
    /\ LET index == Index(CurPixel(t), Unwrap(loc[t].info))
           cbuf == cache["colors"]
       IN IF IsSome(cbuf) /\ index >= Len(Unwrap(cbuf).v)
          THEN /\ Panic(t, holder)
               /\ UNCHANGED cache
          ELSE /\ cache' = IF IsSome(cbuf)
                           THEN [cache EXCEPT !["colors"][1].v[index + 1] = CurPixel(t)[3]]
                           ELSE cache
               /\ holder' = [holder EXCEPT !["created_at"] = t, !["colors"] = NoTask]
               /\ pc' = [pc EXCEPT ![t] = "ub_write_ts"]
               /\ UNCHANGED loc
    /\ UNCHANGED <<op, result, connected, connRes,
                   srvBoard, wsq, wsOpen, clock, site_base, env, hist>>

(* the write of the timestamp, drop(timestamps), return to the loop over *)
(* the pixels of the frame                                               *)
update_buffers_timestamps(t) ==
    /\ t = StreamTask
    /\ pc[t] = "ub_write_ts"
    /\ LET index == Index(CurPixel(t), Unwrap(loc[t].info))
           tbuf == cache["timestamps"]
           canvas_epoch == cache["created_at"]
           timestamp == clock - Unwrap(canvas_epoch).v
       IN IF IsSome(tbuf) /\
               (\/ IsNone(canvas_epoch)
                \/ TimePanics(timestamp)
                \/ index >= Len(Unwrap(tbuf).v))
          THEN /\ Panic(t, holder)
               /\ UNCHANGED <<cache, op, hist>>
          ELSE /\ hist' = Applied(hist, CurPixel(t), index)
               /\ cache' = IF IsSome(tbuf)
                           THEN [cache EXCEPT !["timestamps"][1].v[index + 1] = timestamp]
                           ELSE cache
               /\ holder' = Release(holder, t)
               /\ IF loc[t].k < Len(loc[t].frame)
                  THEN /\ loc' = [loc EXCEPT ![t].k = @ + 1, ![t].info = None]
                       /\ pc' = [pc EXCEPT ![t] = "info_lock"]
                       /\ UNCHANGED op
                  ELSE /\ loc' = [loc EXCEPT ![t].info = None]
                       /\ pc' = [pc EXCEPT ![t] = "forward"]
                       /\ op' = [op EXCEPT ![t] = "connect"]
    /\ UNCHANGED <<result, connected, connRes,
                   srvBoard, wsq, wsOpen, clock, site_base, env>>

update_buffers(t) ==
    \/ update_buffers_lock_colors(t)
    \/ update_buffers_lock_timestamps(t)
    \/ update_buffers_colors(t)
    \/ update_buffers_timestamps(t)

----------------------------------------------------------------------------
(* Client::clear_cache: six lock().await in declaration order, then six    *)
(* assignments, then the guards are dropped at the end of the function     *)

ClearOrder == <<"info", "colors", "initial", "mask", "timestamps", "created_at">>

(* Mutant: clear_cache locks the info slot only *)
clear_cache_lock_partial(t) ==
    /\ t = StreamTask
    /\ pc[t] = "cl_lock"
    /\ holder["info"] = NoTask
    /\ holder' = [holder EXCEPT !["info"] = t]
    /\ loc' = [loc EXCEPT ![t].k = 1]
    /\ pc' = [pc EXCEPT ![t] = "cl_set"]
    /\ UNCHANGED <<cache, op, result, connected, connRes,
                   srvBoard, wsq, wsOpen, clock, site_base, env, hist>>

clear_cache_lock(t) ==
    /\ t = StreamTask
    /\ pc[t] = "cl_lock"
    /\ holder[ClearOrder[loc[t].k]] = NoTask
    /\ holder' = [holder EXCEPT ![ClearOrder[loc[t].k]] = t]
    /\ IF loc[t].k < Len(ClearOrder)
       THEN /\ loc' = [loc EXCEPT ![t].k = @ + 1]
            /\ UNCHANGED pc
       ELSE /\ loc' = [loc EXCEPT ![t].k = 1]
            /\ pc' = [pc EXCEPT ![t] = "cl_set"]
    /\ UNCHANGED <<cache, op, result, connected, connRes,
                   srvBoard, wsq, wsOpen, clock, site_base, env, hist>>

(* Mutant: clear_cache leaves the timestamps slot as it is *)
clear_cache_set_keep_timestamps(t) ==
    /\ t = StreamTask
    /\ pc[t] = "cl_set"
    /\ cache' = IF ClearOrder[loc[t].k] = "timestamps" THEN cache
                ELSE [cache EXCEPT ![ClearOrder[loc[t].k]] = None]
    /\ IF loc[t].k < Len(ClearOrder)
       THEN /\ loc' = [loc EXCEPT ![t].k = @ + 1]
            /\ UNCHANGED pc
       ELSE /\ loc' = [loc EXCEPT ![t].k = 0]
            /\ pc' = [pc EXCEPT ![t] = "cl_drop"]
    /\ UNCHANGED <<holder, op, result, connected, connRes,
                   srvBoard, wsq, wsOpen, clock, site_base, env, hist>>

clear_cache_set(t) ==
    /\ t = StreamTask
    /\ pc[t] = "cl_set"
    /\ cache' = [cache EXCEPT ![ClearOrder[loc[t].k]] = None]
    /\ IF loc[t].k < Len(ClearOrder)
       THEN /\ loc' = [loc EXCEPT ![t].k = @ + 1]
            /\ UNCHANGED pc
       ELSE /\ loc' = [loc EXCEPT ![t].k = 0]
            /\ pc' = [pc EXCEPT ![t] = "cl_drop"]
    /\ UNCHANGED <<holder, op, result, connected, connRes,
                   srvBoard, wsq, wsOpen, clock, site_base, env, hist>>

clear_cache_drop(t) ==
    /\ t = StreamTask
    /\ pc[t] = "cl_drop"
    /\ holder' = Release(holder, t)
    /\ pc' = [pc EXCEPT ![t] = "set_connected"]
    /\ hist' = [hist EXCEPT !.epoch = @ + 1,
                            !.stored = [s \in Slots |-> 0],
                            !.applied = [i \in 1..NumPixels |-> None]]
    /\ UNCHANGED <<cache, op, loc, result, connected, connRes,
                   srvBoard, wsq, wsOpen, clock, site_base, env>>

clear_cache(t) ==
    \/ clear_cache_lock(t)
    \/ clear_cache_set(t)
    \/ clear_cache_drop(t)

----------------------------------------------------------------------------
(* Client::connect *)

(* the scheme of the websocket URL *)
connect_scheme(t) ==
    /\ t = StreamTask
    /\ pc[t] = "start"
    /\ IF CannotBeABase(site_base)
       THEN /\ Panic(t, holder)
            /\ UNCHANGED connRes
       ELSE /\ IF site_base \in {"http", "https"}
               THEN /\ pc' = [pc EXCEPT ![t] = "handshake"]
                    /\ connRes' = "none"
               ELSE /\ connRes' = "InvalidSiteScheme"
                    /\ pc' = [pc EXCEPT ![t] = "sleep"]
            /\ UNCHANGED <<holder, loc>>
    /\ op' = [op EXCEPT ![t] = "connect"]
    /\ hist' = [hist EXCEPT !.notif = <<>>, !.taken = <<>>, !.slept = 0]
    /\ UNCHANGED <<cache, result, connected,
                   srvBoard, wsq, wsOpen, clock, site_base, env>>

(* connect_async(ws_url).await *)
connect_handshake(t) ==
    /\ t = StreamTask
    /\ pc[t] = "handshake"
    /\ \/ /\ hist.connects < env.connects
          /\ wsOpen' = TRUE
          /\ wsq' = <<>>
          /\ hist' = [hist EXCEPT !.connects = @ + 1]
          /\ loc' = [loc EXCEPT ![t].k = 1]
          /\ pc' = [pc EXCEPT ![t] = "cl_lock"]
          /\ UNCHANGED connRes
       \/ /\ connRes' = "WebsocketConnectFailed"
          /\ pc' = [pc EXCEPT ![t] = "sleep"]
          /\ UNCHANGED <<wsOpen, wsq, hist, loc>>
    /\ UNCHANGED <<cache, holder, op, result, connected,
                   srvBoard, clock, site_base, env>>

(* Mutant: connect() goes to handle_ready without calling self.info() *)
connect_connected_no_info(t) ==
    /\ t = StreamTask
    /\ pc[t] = "set_connected"
    /\ connected' = TRUE
    /\ pc' = [pc EXCEPT ![t] = "ready"]
    /\ UNCHANGED <<cache, holder, op, loc, result, connRes,
                   srvBoard, wsq, wsOpen, clock, site_base, env, hist>>

(* *self.connected.write().await = true, then the call of self.info() *)
connect_connected(t) ==
    /\ t = StreamTask
    /\ pc[t] = "set_connected"
    /\ connected' = TRUE
    /\ pc' = [pc EXCEPT ![t] = "info_lock"]
    /\ UNCHANGED <<cache, holder, op, loc, result, connRes,
                   srvBoard, wsq, wsOpen, clock, site_base, env, hist>>

(* self.event_handler.handle_ready(self).await *)
connect_ready(t) ==
    /\ t = StreamTask
    /\ pc[t] = "ready"
    /\ pc' = [pc EXCEPT ![t] = "stream"]
    /\ hist' = Notify(hist, "handle_ready", <<>>)
    /\ UNCHANGED <<cache, holder, op, loc, result, connected, connRes,
                   srvBoard, wsq, wsOpen, clock, site_base, env>>

(* Mutant: a pixel frame is forwarded before update_buffers is called *)
connect_message_forward_first(t) ==
    /\ t = StreamTask
    /\ pc[t] = "stream"
    /\ wsq # <<>>
    /\ wsq' = Tail(wsq)
    /\ LET message == Head(wsq)
       IN CASE message.kind = "error" ->
                 UNCHANGED <<pc, op, loc, holder>>
            [] message.kind = "binary" ->
                 /\ Panic(t, holder)
                 /\ UNCHANGED op
            [] message.kind = "pixel" ->
                 /\ loc' = [loc EXCEPT ![t].kind = "pixel",
                                        ![t].text = message.text,
                                        ![t].frame = message.pixels,
                                        ![t].k = Len(message.pixels)]
                 /\ pc' = [pc EXCEPT ![t] = "forward"]
                 /\ UNCHANGED <<op, holder>>
            [] OTHER ->
                 /\ loc' = [loc EXCEPT ![t].kind = message.kind,
                                        ![t].text = message.text]
                 /\ pc' = [pc EXCEPT ![t] = "forward"]
                 /\ UNCHANGED <<op, holder>>
    /\ hist' = IF Head(wsq).kind \in {"error", "binary"}
               THEN hist ELSE Taken(hist, Head(wsq).text)
    /\ UNCHANGED <<cache, result, connected, connRes,
                   srvBoard, wsOpen, clock, site_base, env>>

(* one item of the stream: the closure of read.for_each up to its first *)
(* await                                                                 *)
connect_message(t) ==
    /\ t = StreamTask
    /\ pc[t] = "stream"
    /\ wsq # <<>>
    /\ wsq' = Tail(wsq)
    /\ LET message == Head(wsq)
       IN CASE message.kind = "error" ->
                 UNCHANGED <<pc, op, loc, holder>>
            [] message.kind = "binary" ->
                 /\ Panic(t, holder)
                 /\ UNCHANGED op
            [] message.kind = "pixel" ->
                 /\ loc' = [loc EXCEPT ![t].kind = "pixel",
                                        ![t].text = message.text,
                                        ![t].frame = message.pixels, ![t].k = 1]
                 /\ op' = [op EXCEPT ![t] = "update_buffers"]
                 /\ pc' = [pc EXCEPT ![t] = "info_lock"]
                 /\ UNCHANGED holder
            [] OTHER ->
                 /\ loc' = [loc EXCEPT ![t].kind = message.kind,
                                        ![t].text = message.text]
                 /\ pc' = [pc EXCEPT ![t] = "forward"]
                 /\ UNCHANGED <<op, holder>>
    /\ hist' = IF Head(wsq).kind \in {"error", "binary"}
               THEN hist ELSE Taken(hist, Head(wsq).text)
    /\ UNCHANGED <<cache, result, connected, connRes,
                   srvBoard, wsOpen, clock, site_base, env>>

(* The arm of the match on the decoded message: the handler called and *)
(* the argument it is given                                            *)
Handler(kind, pixels, text) ==
    CASE kind = "pixel" -> <<"handle_board_update", pixels>>
      [] kind = "message" -> <<"handle_chat_message", <<>>>>
      [] kind = "unknown" -> <<"handle_unknown", <<text>>>>

(* Mutant: handle_unknown is given an empty text *)
connect_forward_blank(t) ==
    /\ t = StreamTask
    /\ pc[t] = "forward"
    /\ hist' = Notify(hist, Handler(loc[t].kind, loc[t].frame, "")[1],
                            Handler(loc[t].kind, loc[t].frame, "")[2])
    /\ pc' = [pc EXCEPT ![t] = "handler"]
    /\ UNCHANGED <<cache, holder, op, loc, result, connected, connRes,
                   srvBoard, wsq, wsOpen, clock, site_base, env>>

(* the call of the handler of the decoded message: handle_board_update *)
(* for a pixel frame                                                    *)
connect_forward(t) ==
    /\ t = StreamTask
    /\ pc[t] = "forward"
    /\ hist' = Notify(hist, Handler(loc[t].kind, loc[t].frame, loc[t].text)[1],
                            Handler(loc[t].kind, loc[t].frame, loc[t].text)[2])
    /\ pc' = [pc EXCEPT ![t] = "handler"]
    /\ UNCHANGED <<cache, holder, op, loc, result, connected, connRes,
                   srvBoard, wsq, wsOpen, clock, site_base, env>>

(* the handler returns; for_each polls the stream for the next item *)
connect_handled(t) ==
    /\ t = StreamTask
    /\ pc[t] = "handler"
    /\ loc' = [loc EXCEPT ![t] = NoLoc]
    /\ pc' = [pc EXCEPT ![t] = "stream"]
    /\ UNCHANGED <<cache, holder, op, result, connected, connRes,
                   srvBoard, wsq, wsOpen, clock, site_base, env, hist>>

(* Mutant: the cache is cleared when the stream ends *)
connect_closed_clearing(t) ==
    /\ t = StreamTask
    /\ pc[t] = "stream"
    /\ wsq = <<>>
    /\ ~wsOpen
    /\ connected' = FALSE
    /\ cache' = [s \in Slots |-> None]
    /\ pc' = [pc EXCEPT ![t] = "disconnect"]
    /\ UNCHANGED <<holder, op, loc, result, connRes,
                   srvBoard, wsq, wsOpen, clock, site_base, env, hist>>

(* stream.await returns when the stream has ended *)
connect_closed(t) ==
    /\ t = StreamTask
    /\ pc[t] = "stream"
    /\ wsq = <<>>
    /\ ~wsOpen
    /\ connected' = FALSE
    /\ pc' = [pc EXCEPT ![t] = "disconnect"]
    /\ UNCHANGED <<cache, holder, op, loc, result, connRes,
                   srvBoard, wsq, wsOpen, clock, site_base, env, hist>>

(* self.event_handler.handle_disconnect(self).await; Ok(()) *)
connect_disconnect(t) ==
    /\ t = StreamTask
    /\ pc[t] = "disconnect"
    /\ connRes' = "Ok"
    /\ pc' = [pc EXCEPT ![t] = "sleep"]
    /\ hist' = Notify(hist, "handle_disconnect", <<>>)
    /\ UNCHANGED <<cache, holder, op, loc, result, connected,
                   srvBoard, wsq, wsOpen, clock, site_base, env>>

connect(t) ==
    \/ connect_scheme(t)
    \/ connect_handshake(t)
    \/ connect_connected(t)
    \/ connect_ready(t)
    \/ connect_message(t)
    \/ connect_forward(t)
    \/ connect_handled(t)
    \/ connect_closed(t)
    \/ connect_disconnect(t)

(* Mutant: start() gives up after a failed BoardInfo request *)
start_giveup(t) ==
    /\ t = StreamTask
    /\ pc[t] = "sleep"
    /\ connRes # "InfoFailed"
    /\ pc' = [pc EXCEPT ![t] = "start"]
    /\ op' = [op EXCEPT ![t] = "start"]
    /\ hist' = Slept(hist, env.reconnect_time)
    /\ UNCHANGED <<cache, holder, loc, result, connected, connRes,
                   srvBoard, wsq, wsOpen, clock, site_base, env>>

(* Client::start: tokio::time::sleep(self.reconnect_time), then the loop *)
start(t) ==
    /\ t = StreamTask
    /\ pc[t] = "sleep"
    /\ pc' = [pc EXCEPT ![t] = "start"]
    /\ op' = [op EXCEPT ![t] = "start"]
    /\ hist' = Slept(hist, env.reconnect_time)
    /\ UNCHANGED <<cache, holder, loc, result, connected, connRes,
                   srvBoard, wsq, wsOpen, clock, site_base, env>>

----------------------------------------------------------------------------
(* The environment: the server and the clock *)

ServerSend ==
    /\ wsOpen
    /\ Len(wsq) < MaxQueue
    /\ hist.sent < env.sent
    /\ \E f \in env.frames :
        /\ wsq' = Append(wsq, f)
        /\ srvBoard' = Placed(srvBoard, f.pixels)
    /\ hist' = [hist EXCEPT !.sent = @ + 1]
    /\ UNCHANGED <<cache, holder, pc, op, loc, result, connected, connRes,
                   wsOpen, clock, site_base, env>>

ServerClose ==
    /\ wsOpen
    /\ wsOpen' = FALSE
    /\ UNCHANGED <<cache, holder, pc, op, loc, result, connected, connRes,
                   srvBoard, wsq, clock, site_base, env, hist>>

Tick ==
    /\ clock < MaxTime
    /\ clock' = clock + 1
    /\ UNCHANGED <<cache, holder, pc, op, loc, result, connected, connRes,
                   srvBoard, wsq, wsOpen, site_base, env, hist>>

----------------------------------------------------------------------------
(* Specifications.  Spec explores the cache under two concurrent callers   *)
(* of all five accessors and a well-behaved server; SpecPixel explores the *)
(* pixel path under every kind of frame, short bodies and one caller.      *)

StreamStep ==
    \/ \E t \in Tasks : info(t)
    \/ update_buffers(StreamTask)
    \/ clear_cache(StreamTask)
    \/ connect(StreamTask)
    \/ start(StreamTask)
    \/ ServerSend
    \/ ServerClose

EnvCache == [callers |-> Callers, accessors |-> Accessors,
             frames |-> {Frame("pixel", << <<1, 0, 1>> >>)},
             faulty |-> FALSE, heat |-> {0},
             connects |-> MaxConnects, sent |-> 1,
             log |-> FALSE, reconnect_time |-> DefaultReconnect,
             virgin |-> {0, 1}, cooldown |-> 1, stale |-> FALSE]

Init == InitWith(EnvCache, {"https", "ftp"})

Next ==
    \/ \E t \in Callers :
        \/ Call(t)
        \/ colors(t)
        \/ initial_colors(t)
        \/ mask(t)
        \/ timestamps(t)
    \/ StreamStep

Spec == Init /\ [][Next]_vars

EnvPixel == [callers |-> {"a1"}, accessors |-> {"colors", "timestamps"},
             frames |-> Frames, faulty |-> TRUE, heat |-> {0, 3},
             connects |-> 1, sent |-> MaxFrames,
             log |-> FALSE, reconnect_time |-> DefaultReconnect,
             virgin |-> {0, 1}, cooldown |-> 1, stale |-> FALSE]

InitPixel == InitWith(EnvPixel, {"https"})

NextPixel ==
    \/ \E t \in Callers :
        \/ Call(t)
        \/ colors(t)
        \/ timestamps(t)
    \/ StreamStep
    \/ Tick

SpecPixel == InitPixel /\ [][NextPixel]_vars

(* SpecStream explores the dispatch of the frames of a connection, with   *)
(* the log of the handler calls, one caller of colors() and both kinds of *)
(* base address.                                                          *)
StreamFrames ==
    {Frame("pixel", <<p>>) : p \in {<<1, 0, 1>>, <<0, Canvas.height, 2>>}} \cup
    {Unknown(txt) : txt \in UnknownTexts} \cup
    {Frame(k, <<>>) : k \in {"message", "error", "binary"}}

EnvStream == [callers |-> {"a1"}, accessors |-> {"colors"},
              frames |-> StreamFrames, faulty |-> FALSE, heat |-> {0},
              connects |-> MaxConnects, sent |-> MaxFrames,
              log |-> TRUE, reconnect_time |-> DefaultReconnect,
              virgin |-> {0}, cooldown |-> 1, stale |-> FALSE]

InitStream == InitWith(EnvStream, {"https", "ftp"})

NextStream ==
    \/ \E t \in Callers :
        \/ Call(t)
        \/ colors(t)
    \/ StreamStep

SpecStream == InitStream /\ [][NextStream]_vars

(* SpecRetry explores the connection loop alone, under the fairness the   *)
(* runtime gives the streaming task: a task that can run is polled, a     *)
(* sleep ends, and every request and handshake is answered.               *)
EnvRetry(r) == [callers |-> {}, accessors |-> {},
                frames |-> {Frame("pixel", << <<1, 0, 1>> >>), Frame("message", <<>>)},
                faulty |-> FALSE, heat |-> {0},
                connects |-> MaxConnects, sent |-> MaxFrames,
                log |-> TRUE, reconnect_time |-> r,
                virgin |-> {0}, cooldown |-> 1, stale |-> FALSE]

InitRetry == \E r \in {1, DefaultReconnect} : InitWith(EnvRetry(r), Schemes)

StreamTaskStep ==
    \/ info(StreamTask)
    \/ update_buffers(StreamTask)
    \/ clear_cache(StreamTask)
    \/ connect(StreamTask)
    \/ start(StreamTask)

SpecRetry == InitRetry /\ [][StreamStep]_vars /\ WF_vars(StreamTaskStep)

(* SpecTime explores timestamps() over every heatmap byte, virgin and     *)
(* non-virgin first pixels, two cooldowns and calls repeated after a      *)
(* failed request.  The clock counts seconds from the start.              *)
HeatValues == 0..255
VirginValues == {0, 1, 255}
Cooldowns == {1, 300}

EnvTime(h, v, c) == [callers |-> {"a1"}, accessors |-> {"timestamps"},
                     frames |-> {}, faulty |-> FALSE, heat |-> {h},
                     connects |-> 0, sent |-> 0,
                     log |-> FALSE, reconnect_time |-> DefaultReconnect,
                     virgin |-> {v}, cooldown |-> c, stale |-> FALSE]

InitTime ==
    \E h \in HeatValues, v \in VirginValues, c \in Cooldowns :
        InitWith(EnvTime(h, v, c), {"https"})

NextTime ==
    \/ Call("a1")
    \/ info("a1")
    \/ timestamps("a1")
    \/ Tick

SpecTime == InitTime /\ [][NextTime]_vars

(* SpecFetch explores update_buffers against requests in flight: one    *)
(* caller of colors() and timestamps(), a server that changes one pixel  *)
(* twice and another once, and responses made from the canvas as it was  *)
(* when the request was sent or as it is when the response arrives.      *)
FetchFrames ==
    {Frame("pixel", <<p>>) : p \in {<<1, 0, 1>>, <<1, 0, 2>>, <<1, 1, 2>>}}

EnvFetch == [callers |-> {"a1"}, accessors |-> {"colors", "timestamps"},
             frames |-> FetchFrames, faulty |-> FALSE, heat |-> {0},
             connects |-> MaxConnects, sent |-> MaxFrames,
             log |-> TRUE, reconnect_time |-> DefaultReconnect,
             virgin |-> {0}, cooldown |-> 1, stale |-> TRUE]

InitFetch == InitWith(EnvFetch, {"https"})

NextFetch ==
    \/ \E t \in Callers :
        \/ Call(t)
        \/ colors(t)
        \/ timestamps(t)
    \/ StreamStep

SpecFetch == InitFetch /\ [][NextFetch]_vars

----------------------------------------------------------------------------
(* Properties *)

(* Task t has a request for the content of slot s in flight *)
Fetching(t, s) ==
    CASE s = "info" -> pc[t] = "info_fetch"
      [] s = "timestamps" -> pc[t] = "join"
      [] s = "created_at" -> FALSE
      [] OTHER -> pc[t] = "fetch" /\ SlotOf(op[t]) = s

(* Task t returns from an accessor in this step *)
Returns(t) == pc[t] # "idle" /\ pc'[t] = "idle"

Handle(s) == Unwrap(cache[s]).id
Data(s) == Unwrap(cache[s]).v

(* C1 (single flight).  At most one request per resource is in flight; a  *)
(* request is only in flight while its sender holds the lock of the empty *)
(* slot; between two invalidations at most one buffer is stored into a    *)
(* slot, so every handle returned is that one buffer; and a call that     *)
(* returns Ok returns the handle that is in the slot.                     *)
C1_OneFetch ==
    /\ \A s \in Slots :
        /\ Cardinality({t \in Tasks : Fetching(t, s)}) <= 1
        /\ \A t \in Tasks : Fetching(t, s) => holder[s] = t /\ IsNone(cache[s])
        /\ hist.stored[s] <= 1
        /\ IsSome(cache[s]) => Handle(s)[2] = 1
    /\ result.st = "ok" => result.id[2] = 1

C1_SharedHandle ==
    \A t \in Callers :
        Returns(t) /\ result'.st = "ok" =>
            /\ IsSome(cache'[SlotOf(op[t])])
            /\ result'.id = Unwrap(cache'[SlotOf(op[t])]).id

C1_SingleFlight == []C1_OneFetch /\ [][C1_SharedHandle]_vars

(* two callers are in colors() on the empty slot: one has the request in *)
(* flight, the other waits for the lock                                  *)
C1_Witness ==
    /\ pc["a1"] = "fetch" /\ op["a1"] = "colors"
    /\ pc["a2"] = "lock" /\ op["a2"] = "colors"
    /\ IsNone(cache["colors"])

(* C2 (lock order).  A task that requests a slot lock holds no lock that  *)
(* comes later in the order info, colors, initial, mask, timestamps,      *)
(* created_at.                                                            *)
Rank(s) == CHOOSE i \in 1..Len(ClearOrder) : ClearOrder[i] = s

Wants(t) ==
    CASE pc[t] = "info_lock" -> Some("info")
      [] pc[t] = "lock" -> Some(SlotOf(op[t]))
      [] pc[t] = "created_lock" -> Some("created_at")
      [] pc[t] = "ub_colors" -> Some("colors")
      [] pc[t] = "ub_timestamps" -> Some("timestamps")
      [] pc[t] = "ub_created" -> Some("created_at")
      [] pc[t] = "cl_lock" -> Some(ClearOrder[loc[t].k])
      [] OTHER -> None

C2_LockOrder ==
    \A t \in Tasks, s \in Slots :
        holder[s] = t /\ IsSome(Wants(t)) => Rank(s) < Rank(Unwrap(Wants(t)))

(* C3 (atomic invalidation).  While clear_cache assigns None to the slots *)
(* the streaming task holds all six locks, and it releases them only once *)
(* every slot is empty: no task that takes a slot lock sees the cache     *)
(* partly cleared.                                                        *)
C3_AtomicInvalidation ==
    /\ pc[StreamTask] \in {"cl_set", "cl_drop"} =>
           \A s \in Slots : holder[s] = StreamTask
    /\ pc[StreamTask] = "cl_drop" => \A s \in Slots : IsNone(cache[s])

(* clear_cache has emptied colors, timestamps is still populated, and a *)
(* caller waits for a slot lock                                         *)
C3_Witness ==
    /\ pc[StreamTask] = "cl_set"
    /\ hist.stored["colors"] = 1 /\ IsNone(cache["colors"])
    /\ IsSome(cache["timestamps"])
    /\ \E t \in Callers : pc[t] = "lock"

(* C4 (only a handshake empties).  A populated slot keeps its handle in   *)
(* every step except an assignment of clear_cache, and clear_cache is     *)
(* entered only from a successful handshake.                              *)
C4_Step ==
    /\ \A s \in Slots :
        IsSome(cache[s]) =>
            \/ IsSome(cache'[s]) /\ Unwrap(cache'[s]).id = Handle(s)
            \/ pc[StreamTask] = "cl_set"
    /\ pc'[StreamTask] = "cl_lock" /\ pc[StreamTask] # "cl_lock" =>
           pc[StreamTask] = "handshake" /\ wsOpen'

C4_OnlyHandshakeEmpties == [][C4_Step]_vars

(* the stream has ended, connect() has returned, and the buffer fetched *)
(* during the connection is still in its slot                           *)
C4_Witness ==
    /\ pc[StreamTask] = "sleep" /\ connRes = "Ok" /\ ~wsOpen
    /\ IsSome(cache["colors"]) /\ Handle("colors")[1] = 1

(* C5 (no stale store).  Every populated slot was filled by a request     *)
(* sent after the last completed clear_cache.                             *)
C5_NoStaleStore ==
    \A s \in Slots : IsSome(cache[s]) => Handle(s)[1] = hist.epoch

(* clear_cache holds the info lock and waits for the colors lock, which *)
(* is held by a caller whose request is in flight                       *)
C5_Witness ==
    /\ pc[StreamTask] = "cl_lock" /\ loc[StreamTask].k = 2
    /\ \E t \in Callers : pc[t] = "fetch" /\ holder["colors"] = t

(* C6 (size invariant).  Every populated per-pixel slot has width*height  *)
(* cells of the BoardInfo in the info slot.                               *)
C6_SizeInvariant ==
    IsSome(cache["info"]) =>
        \A s \in PixelSlots :
            IsSome(cache[s]) => Len(Data(s)) = Data("info").width * Data("info").height

(* C7 (failure leaves the slot empty).  A call that returns an error      *)
(* names its accessor, leaves its slot empty and holds no lock; a call    *)
(* that finds its slot empty takes the lock and goes on to its requests.  *)
C7_Failure ==
    \A t \in Callers :
        Returns(t) /\ result'.st = "err" =>
            /\ result'.failed = op[t]
            /\ IsNone(cache'[SlotOf(op[t])])
            /\ \A s \in Slots : holder'[s] # t

C7_Retry ==
    \A t \in Callers :
        /\ pc[t] = (IF op[t] = "info" THEN "info_lock" ELSE "lock")
        /\ pc'[t] # pc[t]
        /\ IsNone(cache[SlotOf(op[t])])
        => /\ holder'[SlotOf(op[t])] = t
           /\ pc'[t] = (CASE op[t] = "info" -> "info_fetch"
                          [] op[t] = "timestamps" -> "info_lock"
                          [] OTHER -> "fetch")

C7_FailedFetch == [][C7_Failure /\ C7_Retry]_vars

(* a call has failed, and a later call of the same accessor has its *)
(* request in flight                                                *)
C7_Witness ==
    /\ result.st = "err"
    /\ \E t \in Callers :
        /\ op[t] = result.failed
        /\ Fetching(t, SlotOf(op[t]))

(* C8 (index mapping).  update_buffers writes the color at index y*w + x  *)
(* of the cached color buffer and now - CanvasEpoch at the same index of  *)
(* the cached timestamp buffer, and changes no other cell; it panics only *)
(* when that index is beyond the end of a cached buffer.                  *)
C8_Cell(old, new, i, val) ==
    /\ Len(new) = Len(old)
    /\ i + 1 \in 1..Len(old)
    /\ \A j \in 1..Len(old) : new[j] = (IF j = i + 1 THEN val ELSE old[j])

C8_Step ==
    LET t == StreamTask
        pixel == loc[t].frame[loc[t].k]
        i == pixel[2] * Unwrap(loc[t].info).width + pixel[1]
    IN /\ pc[t] = "ub_created" /\ pc'[t] = "ub_write_ts" =>
           /\ \A s \in Slots \ {"colors"} : cache'[s] = cache[s]
           /\ IF IsSome(cache["colors"])
              THEN /\ IsSome(cache'["colors"])
                   /\ Unwrap(cache'["colors"]).id = Handle("colors")
                   /\ C8_Cell(Data("colors"), Unwrap(cache'["colors"]).v, i, pixel[3])
              ELSE IsNone(cache'["colors"])
       /\ pc[t] = "ub_write_ts" /\ pc'[t] \in {"info_lock", "forward"} =>
           /\ \A s \in Slots \ {"timestamps"} : cache'[s] = cache[s]
           /\ IF IsSome(cache["timestamps"])
              THEN /\ IsSome(cache'["timestamps"])
                   /\ Unwrap(cache'["timestamps"]).id = Handle("timestamps")
                   /\ C8_Cell(Data("timestamps"), Unwrap(cache'["timestamps"]).v,
                              i, clock - Data("created_at"))
              ELSE IsNone(cache'["timestamps"])
       /\ pc[t] = "ub_created" /\ pc'[t] = "panicked" =>
           IsSome(cache["colors"]) /\ i >= Len(Data("colors"))
       /\ pc[t] = "ub_write_ts" /\ pc'[t] = "panicked" =>
           IsSome(cache["timestamps"]) /\ i >= Len(Data("timestamps"))

C8_IndexMapping == [][C8_Step]_vars

(* pixel (1, 0, 1) has been applied to both cached buffers of a 2x2 *)
(* canvas: index 1 holds the color and the age                      *)
C8_Witness ==
    /\ pc[StreamTask] = "forward"
    /\ loc[StreamTask].frame = << <<1, 0, 1>> >>
    /\ IsSome(cache["colors"]) /\ IsSome(cache["timestamps"])
    /\ Data("colors")[2] = 1
    /\ Data("timestamps")[2] = clock - Data("created_at")
    /\ Data("timestamps")[1] # Data("timestamps")[2]

(* C9 (out-of-range pixel).  A pixel with x >= width or y >= height       *)
(* changes no cell of a cached buffer.                                    *)
C9_Step ==
    LET t == StreamTask
        pixel == loc[t].frame[loc[t].k]
        board_info == Unwrap(loc[t].info)
    IN pc[t] \in {"ub_created", "ub_write_ts"} /\
       (pixel[1] >= board_info.width \/ pixel[2] >= board_info.height)
       => cache' = cache

C9_OutOfRangeNotApplied == [][C9_Step]_vars

(* C10 (update before forward).  When handle_board_update is about to be  *)
(* called, update_buffers has run for every pixel of the frame, and each  *)
(* cached color cell of an in-range pixel of the frame holds the color of *)
(* that pixel or a later one: of a later pixel of the frame on the same   *)
(* cell, or of a pixel on that cell in a frame the server has sent since. *)
C10_Later(cell) ==
    UNION {{wsq[n].pixels[j][3] : j \in
                {j \in 1..Len(wsq[n].pixels) :
                    /\ InRange(wsq[n].pixels[j])
                    /\ Index(wsq[n].pixels[j], ServerInfo) = cell}} :
           n \in 1..Len(wsq)}

C10_UpdateBeforeForward ==
    LET t == StreamTask
        frame == loc[t].frame
    IN pc[t] = "forward" /\ loc[t].kind = "pixel" =>
        /\ loc[t].k = Len(frame)
        /\ \A i \in 1..Len(frame) :
            LET cell == Index(frame[i], ServerInfo)
            IN InRange(frame[i]) /\ IsSome(cache["colors"])
                 /\ cell < Len(Data("colors")) =>
                   Data("colors")[cell + 1] \in
                       {frame[j][3] : j \in {j \in i..Len(frame) :
                                               Index(frame[j], ServerInfo) = cell}}
                       \cup C10_Later(cell)

(* the frame with two pixels on one cell has been applied to the cached *)
(* color buffer and is about to be forwarded                            *)
C10_Witness ==
    /\ pc[StreamTask] = "forward"
    /\ loc[StreamTask].frame = << <<1, 0, 1>>, <<1, 0, 2>> >>
    /\ IsSome(cache["colors"])
    /\ Data("colors")[2] = 2

(* The notifications of the frames of the current connection: the log *)
(* without handle_ready and handle_disconnect                          *)
FrameNotifs ==
    SelectSeq(hist.notif, LAMBDA e : e.h \notin {"handle_ready", "handle_disconnect"})

(* The handler the frame with this text is due *)
Due(txt) ==
    CASE txt = "pixel" -> "handle_board_update"
      [] txt = "message" -> "handle_chat_message"
      [] OTHER -> "handle_unknown"

(* The streaming task is between taking a frame and calling its handler *)
Dispatching ==
    /\ op[StreamTask] \in {"connect", "update_buffers"}
    /\ pc[StreamTask] \in {"info_lock", "info_fetch", "ub_colors", "ub_timestamps",
                           "ub_created", "ub_write_ts", "forward"}
    /\ loc[StreamTask].kind # ""

(* C11 (dispatch discipline).  The notifications made for the frames of a *)
(* connection are those due to the text frames taken from the stream, one *)
(* each and in the order of arrival; only the frame being processed has   *)
(* none yet, and the handler of a frame has returned before the next      *)
(* frame is taken.                                                        *)
C11_OnePerFrameInOrder ==
    LET n == Len(FrameNotifs)
        m == Len(hist.taken)
    IN /\ n <= m /\ m <= n + 1
       /\ \A k \in 1..n : k <= m => FrameNotifs[k].h = Due(hist.taken[k])
       /\ m = n + 1 => Dispatching
       /\ pc[StreamTask] = "handler" => m = n

(* C12 (fallback routing).  The streaming task takes a frame whose text  *)
(* decodes to no Message, calls handle_unknown once with that text, and  *)
(* returns to the stream; none of these steps changes a cache slot or a  *)
(* buffer cell or closes the stream.                                     *)
StreamMoves == pc'[StreamTask] # pc[StreamTask]

C12_Step ==
    LET t == StreamTask
    IN /\ pc[t] = "stream" /\ wsq # <<>> /\ Head(wsq).kind = "unknown" /\ StreamMoves =>
           /\ pc'[t] = "forward"
           /\ hist'.taken = Append(hist.taken, Head(wsq).text)
           /\ hist'.notif = hist.notif
           /\ cache' = cache /\ wsOpen' = wsOpen
       /\ pc[t] = "forward" /\ loc[t].kind = "unknown" /\ StreamMoves =>
           /\ pc'[t] = "handler"
           /\ hist'.notif = Append(hist.notif,
                  [h |-> "handle_unknown", arg |-> <<hist.taken[Len(hist.taken)]>>])
           /\ cache' = cache /\ wsOpen' = wsOpen
       /\ pc[t] = "handler" /\ loc[t].kind = "unknown" /\ StreamMoves =>
           /\ pc'[t] = "stream"
           /\ hist'.notif = hist.notif
           /\ cache' = cache /\ wsOpen' = wsOpen

C12_FallbackRouting == [][C12_Step]_vars

(* a text that is no JSON was given to handle_unknown, the color buffer *)
(* is still cached, and the next frame has been dispatched as well      *)
C12_Witness ==
    /\ Len(FrameNotifs) = 2
    /\ FrameNotifs[1] = [h |-> "handle_unknown", arg |-> <<"not json">>]
    /\ FrameNotifs[2].h = "handle_board_update"
    /\ IsSome(cache["colors"])

(* C13 (retry).  Every return of connect() takes start() to its sleep;   *)
(* the sleep lasts the configured reconnect_time whatever happened        *)
(* before, and is followed by the next call of connect(); a streaming     *)
(* task that sleeps is eventually in connect() again, and after a stream  *)
(* end, a failed handshake or a failed BoardInfo request it eventually    *)
(* attempts the handshake again.                                          *)
C13_Step ==
    LET t == StreamTask
    IN /\ connRes' # connRes /\ connRes' # "none" => pc'[t] = "sleep"
       /\ pc[t] = "sleep" /\ StreamMoves =>
           /\ pc'[t] = "start"
           /\ hist'.slept = env.reconnect_time

C14_Step ==
    ~ /\ connRes = "InvalidSiteScheme"
      /\ pc[StreamTask] = "sleep"
      /\ pc'[StreamTask] = "start"

C14_NoRetryAfterInvalidScheme == [][C14_Step]_vars

(* C15 (configuration rejection precedes all I/O).  With a base address  *)
(* whose scheme is neither http nor https, connect() returns              *)
(* InvalidSiteScheme in its first step and leaves the cache as it is; the *)
(* streaming task never attempts a handshake or sends a request, the      *)
(* cache is never cleared, connected is never set and no handler is       *)
(* called.                                                                *)
C15_Rejected ==
    site_base \notin {"http", "https"} =>
        /\ pc[StreamTask] \in {"start", "sleep"}
        /\ op[StreamTask] \in {"start", "connect"}
        /\ connRes \in {"none", "InvalidSiteScheme"}
        /\ ~wsOpen /\ hist.connects = 0
        /\ hist.epoch = 0
        /\ ~connected
        /\ hist.notif = <<>>

C15_Step ==
    pc[StreamTask] = "start" /\ StreamMoves /\ site_base \notin {"http", "https"} =>
        /\ connRes' = "InvalidSiteScheme"
        /\ pc'[StreamTask] = "sleep"
        /\ cache' = cache

C15_RejectionBeforeIO == []C15_Rejected /\ [][C15_Step]_vars

(* C16 (Ready-phase failure).  The BoardInfo request connect() makes     *)
(* after the handshake either fills the info slot and leads to            *)
(* handle_ready, or makes connect() return InfoFailed: the websocket is   *)
(* dropped with the frames it holds, start() goes to its sleep, and no    *)
(* handler was called and no frame taken during that connect().           *)
C16_Failed ==
    connRes = "InfoFailed" =>
        /\ pc[StreamTask] \in {"sleep", "start"}
        /\ hist.notif = <<>>
        /\ hist.taken = <<>>

C16_Step ==
    LET t == StreamTask
    IN /\ op[t] = "connect" /\ pc[t] = "info_fetch" /\ StreamMoves =>
           \/ pc'[t] = "ready" /\ IsSome(cache'["info"]) /\ connRes' = connRes
           \/ connRes' = "InfoFailed" /\ IsNone(cache'["info"])
       /\ connRes' = "InfoFailed" /\ connRes # "InfoFailed" =>
           /\ pc'[t] = "sleep"
           /\ ~wsOpen' /\ wsq' = <<>>

C16_ReadyFailure == []C16_Failed /\ [][C16_Step]_vars

(* connect() has returned InfoFailed on a connection on which the server *)
(* had already sent a frame                                              *)
C16_Witness ==
    /\ connRes = "InfoFailed"
    /\ pc[StreamTask] = "sleep"
    /\ hist.sent > 0
    /\ hist.connects > 0

(* C17 (errors, not panics).  No call of timestamps() ends in a panic: an *)
(* age that is negative or does not fit a u32 is returned as an error.    *)
C17_ErrorsNotPanics == result.st # "panic"

(* The inputs of an exploration of timestamps(): the byte of every cell  *)
(* of the heatmap, and the byte of the first cell of the virginmap (the  *)
(* other cells are non-virgin)                                           *)
HeatByte == CHOOSE h \in env.heat : TRUE
VirginByte == CHOOSE v \in env.virgin : TRUE

(* C18 (virgin sentinel).  In every timestamp buffer timestamps() builds, *)
(* the cell of a pixel whose virginmap byte is not 0 holds 0, whatever    *)
(* the heatmap byte and the time of the call.                             *)
C18_VirginSentinel ==
    IsSome(cache["timestamps"]) /\ VirginByte # 0 =>
        Data("timestamps")[1] = 0

(* a buffer built from heat 255 everywhere and a virgin first pixel: the *)
(* first cell holds 0, the second an age                                 *)
C18_Witness ==
    /\ IsSome(cache["timestamps"])
    /\ VirginByte = 255 /\ HeatByte = 255
    /\ Data("timestamps")[1] = 0
    /\ Data("timestamps")[2] = env.cooldown + 1 - 255

(* C19 (reconstruction arithmetic).  The call of timestamps() that finds  *)
(* no CanvasEpoch stores T0 - (heatmap_cooldown + 1), T0 being its `now`; *)
(* a call whose `now` is T stores (T - heat) - CanvasEpoch in the cell of *)
(* every non-virgin pixel.                                                *)
C19_Step ==
    LET t == "a1"
    IN /\ IsNone(cache["created_at"]) /\ IsSome(cache'["created_at"]) =>
           Unwrap(cache'["created_at"]).v = loc[t].now - (env.cooldown + 1)
       /\ IsNone(cache["timestamps"]) /\ IsSome(cache'["timestamps"]) =>
           LET buf == Unwrap(cache'["timestamps"]).v
           IN /\ Len(buf) = NumPixels
              /\ \A i \in 1..NumPixels :
                    i > 1 \/ VirginByte = 0 =>
                        buf[i] = (loc[t].now - HeatByte) - Data("created_at")

C19_Reconstruction == [][C19_Step]_vars

(* heatmap_cooldown 300 and heat 50: CanvasEpoch was inferred at T0 = 0, *)
(* the buffer was built by a later call at T = 1 and holds 252           *)
C19_Witness ==
    /\ env.cooldown = 300 /\ HeatByte = 50 /\ VirginByte = 0
    /\ IsSome(cache["timestamps"])
    /\ Data("created_at") = 0 - 301
    /\ Data("timestamps")[1] = 252

(* C20 (deadlock freedom).  No two tasks each wait for a cache-slot lock *)
(* that the other one holds.                                             *)
C20_NoMutualWait ==
    \A t, u \in Tasks :
        t # u /\ IsSome(Wants(t)) /\ IsSome(Wants(u)) =>
            ~ (holder[Unwrap(Wants(t))] = u /\ holder[Unwrap(Wants(u))] = t)

(* C21 (timestamps imply epoch).  Whenever the timestamps slot is       *)
(* populated the created_at slot is populated too, in every state and so *)
(* in every state a task holding the two locks can observe; created_at   *)
(* may be populated while timestamps is empty.                           *)
C21_TimestampsImplyEpoch ==
    IsSome(cache["timestamps"]) => IsSome(cache["created_at"])

(* clear_cache is about to empty the slots while both are populated and *)
(* a caller is waiting to enter timestamps()                             *)
C21_Witness ==
    /\ pc[StreamTask] = "cl_set" /\ loc[StreamTask].k = 1
    /\ IsSome(cache["timestamps"]) /\ IsSome(cache["created_at"])
    /\ \E t \in Callers : pc[t] = "lock" /\ op[t] = "timestamps"

(* C22 (epoch set once).  A populated created_at slot keeps its handle   *)
(* and its value in every step but an assignment of clear_cache: no call *)
(* of timestamps(), failed or not, and no update_buffers changes it; the  *)
(* step that populates it is made by a call of timestamps() and stores    *)
(* the `now` of that call minus heatmap_cooldown + 1 seconds.             *)
C22_Step ==
    /\ IsSome(cache["created_at"]) =>
           \/ cache'["created_at"] = cache["created_at"]
           \/ pc[StreamTask] = "cl_set" /\ IsNone(cache'["created_at"])
    /\ IsNone(cache["created_at"]) /\ IsSome(cache'["created_at"]) =>
           \E t \in Callers :
               /\ op[t] = "timestamps" /\ pc[t] = "created_lock"
               /\ loc[t].now <= clock
               /\ Unwrap(cache'["created_at"]).v
                      = loc[t].now - (ServerInfo.heatmap_cooldown + 1)

C22_EpochSetOnce == [][C22_Step]_vars

(* created_at was set at time 0; a second later, after a failed call of *)
(* timestamps(), another call is waiting for its two requests and the   *)
(* value is the same                                                    *)
C22_Witness ==
    /\ clock = 1
    /\ IsSome(cache["created_at"])
    /\ Data("created_at") = 0 - (ServerInfo.heatmap_cooldown + 1)
    /\ result.st = "err" /\ result.failed = "timestamps"
    /\ \E t \in Callers : pc[t] = "join" /\ loc[t].now = 1

(* C23 (0 is reserved for never-touched pixels).  In every timestamp   *)
(* buffer timestamps() builds, the cell of a pixel whose virginmap byte *)
(* is 0 holds at least 1, whatever the heatmap byte and the cooldown.   *)
C23_ZeroReserved ==
    IsSome(cache["timestamps"]) =>
        \A i \in 1..Len(Data("timestamps")) :
            i > 1 \/ VirginByte = 0 => Data("timestamps")[i] >= 1

(* C24 (update_buffers populates nothing).  No step of update_buffers   *)
(* changes which of the slots colors, timestamps, created_at, initial,  *)
(* mask are populated or the handle a populated one holds; it leaves an *)
(* empty slot, initial, mask and created_at exactly as they are, and    *)
(* never has a request for a buffer in flight.                          *)
C24_Step ==
    LET t == StreamTask
    IN op[t] = "update_buffers" /\ (StreamMoves \/ loc'[t] # loc[t]) =>
        /\ \A s \in Slots \ {"info"} :
            /\ IsSome(cache'[s]) <=> IsSome(cache[s])
            /\ IsSome(cache[s]) => Unwrap(cache'[s]).id = Handle(s)
            /\ s \in {"initial", "mask", "created_at"} => cache'[s] = cache[s]
            /\ ~ Fetching(t, s)
        /\ pc'[t] \notin {"fetch", "join"}

C24_NoPopulation == [][C24_Step]_vars

(* update_buffers has returned for a pixel frame: the colors slot was   *)
(* empty and still is, the timestamps slot holds the buffer it held, in *)
(* which the age of the pixel was written                               *)
C24_Witness ==
    /\ pc[StreamTask] = "forward" /\ loc[StreamTask].kind = "pixel"
    /\ loc[StreamTask].frame = << <<1, 0, 1>> >>
    /\ IsNone(cache["colors"]) /\ hist.stored["colors"] = 0
    /\ IsSome(cache["timestamps"])
    /\ Data("timestamps")[2] = clock - Data("created_at")

(* C25 (is_connected reflects the stream).  While the streaming task   *)
(* holds no open websocket stream (before a handshake, once connect()   *)
(* has returned, during the sleep of start()) connected is false.       *)
C25_ConnectedReflectsStream ==
    pc[StreamTask] \in {"start", "handshake", "sleep"} => ~connected

(* The streaming task is in the loop over the frames of a connection: *)
(* handle_ready has returned and the stream has not ended              *)
Streaming ==
    \/ op[StreamTask] = "update_buffers"
    \/ op[StreamTask] = "connect" /\ pc[StreamTask] \in {"stream", "forward", "handler"}

(* C26 (info is cached while streaming).  While the streaming task is in *)
(* the loop over the frames the info slot is populated, whatever the     *)
(* callers of the accessors do; update_buffers never has a request for   *)
(* BoardInfo in flight and its call of info() returns the cached value.  *)
C26_Cached ==
    /\ Streaming /\ pc[StreamTask] # "panicked" => IsSome(cache["info"])
    /\ op[StreamTask] = "update_buffers" => pc[StreamTask] # "info_fetch"

C26_Step ==
    LET t == StreamTask
    IN op[t] = "update_buffers" /\ pc[t] = "info_lock" /\ StreamMoves =>
        /\ pc'[t] = "ub_colors"
        /\ loc'[t].info = Some(Data("info"))

C26_InfoWhileStreaming == []C26_Cached /\ [][C26_Step]_vars

(* update_buffers has obtained the cached BoardInfo while one caller is *)
(* entering info() and the other has a request for the colors in flight *)
C26_Witness ==
    /\ op[StreamTask] = "update_buffers" /\ pc[StreamTask] = "ub_colors"
    /\ loc[StreamTask].info = Some(ServerInfo)
    /\ \E t, u \in Callers :
        /\ pc[t] = "info_lock" /\ op[t] = "info"
        /\ pc[u] = "fetch" /\ op[u] = "colors"

(* The colors of the pixels of index i that the server has sent and for *)
(* which update_buffers has not returned yet                             *)
Outstanding(i) ==
    LET t == StreamTask
    IN C10_Later(i) \cup
       (IF op[t] = "update_buffers"
        THEN {loc[t].frame[j][3] : j \in
                 {j \in loc[t].k..Len(loc[t].frame) :
                     Index(loc[t].frame[j], ServerInfo) = i}}
        ELSE {})

(* C27 (no lost update).  update_buffers writes a color only while no    *)
(* request for the colors is in flight, and a timestamp only while no    *)
(* request of timestamps() is: it waits for the lock the request is sent  *)
(* under.  Once update_buffers has returned for a pixel, a populated      *)
(* colors slot holds the color of the last such pixel at its index, or    *)
(* the color of a pixel of that index sent since, until clear_cache.      *)
C27_Kept ==
    \A i \in 1..NumPixels :
        IsSome(hist.applied[i]) /\ IsSome(cache["colors"]) =>
            Data("colors")[i] \in {Unwrap(hist.applied[i])} \cup Outstanding(i - 1)

C27_Step ==
    LET t == StreamTask
    IN /\ pc[t] = "ub_colors" /\ (\E u \in Callers : Fetching(u, "colors")) =>
           pc'[t] = pc[t]
       /\ pc[t] = "ub_timestamps" /\ (\E u \in Callers : Fetching(u, "timestamps")) =>
           pc'[t] = pc[t]
       /\ pc[t] = "ub_created" /\ StreamMoves =>
           \A u \in Callers : ~ Fetching(u, "colors")
       /\ pc[t] = "ub_write_ts" /\ StreamMoves =>
           \A u \in Callers : ~ Fetching(u, "timestamps")

C27_NoLostUpdate == []C27_Kept /\ [][C27_Step]_vars

(* a request for the colors was sent before the server changed pixel   *)
(* (1, 0) and is still in flight; update_buffers has been called for    *)
(* the pixel and waits for the lock of the colors slot                  *)
C27_Witness ==
    /\ op[StreamTask] = "update_buffers" /\ pc[StreamTask] = "ub_colors"
    /\ loc[StreamTask].frame = << <<1, 0, 1>> >>
    /\ srvBoard[2] = 1
    /\ \E u \in Callers :
        /\ Fetching(u, "colors") /\ holder["colors"] = u
        /\ loc[u].snap[2] = 0

====
